---- MODULE Spec2Model ----
(***************************************************************************)
(* A model of src/data_collection.py: the incremental ingestion of         *)
(* weather, COVID and flu series into the tables of final_project.db, the  *)
(* run counter that gates it, the weekly aggregation, and the orchestrator *)
(* collect_all_data.                                                       *)
(*                                                                         *)
(* A table is the set of its rows (records); the primary key is enforced   *)
(* by the insert operators, as SQLite enforces it.  An ISO date string     *)
(* 'YYYY-MM-DD' is the integer YYYYMMDD, which orders as the string does.  *)
(* A nullable value is <<>> (NULL) or <<v>>.  SQLite REAL arithmetic is    *)
(* modelled exactly, as fractions in lowest terms.                         *)
(***************************************************************************)
EXTENDS Integers, Sequences, FiniteSets

\* ------------------------------------------------------------- bounds

\* collect_all_data is called at most MaxOrch times.
MaxOrch == 6
\* At most MaxFaults environment faults (a failing call, a non-success
\* response, a changed source) happen in a behaviour.
MaxFaults == 1

\* The length of the candidate list a source returns unless it is the one
\* source that returns the empty or the long list.
BaseLen == 30

\* ---------------------------------------------------------- constants

START_DATE == 20200301
END_DATE == 20230301
\* The rows persisted by one of runs 1-4.
BATCH == 25
\* The run count from which a driver skips.
COMPLETE == 5
\* The run count below which the 25-row cap applies.
CAPPED == 4

Null == <<>>
Some(v) == <<v>>

Min(a, b) == IF a < b THEN a ELSE b

\* ----------------------------------------------------------- calendar
\* Day numbers count from 2020-01-01 (day 0, a Wednesday).

IsLeap(y) == (y % 4 = 0 /\ y % 100 # 0) \/ y % 400 = 0

DaysInYear(y) == IF IsLeap(y) THEN 366 ELSE 365

RECURSIVE YearStart(_)
YearStart(y) ==
    IF y = 2020 THEN 0
    ELSE IF y > 2020 THEN YearStart(y - 1) + DaysInYear(y - 1)
    ELSE YearStart(y + 1) - DaysInYear(y)

DaysBeforeMonth(y, m) ==
    <<0, 31, 59, 90, 120, 151, 181, 212, 243, 273, 304, 334>>[m]
        + (IF m > 2 /\ IsLeap(y) THEN 1 ELSE 0)

\* strptime(s, '%Y-%m-%d') and SQLite's date parsing: the day number of s.
strptime(iso) ==
    LET y == iso \div 10000
        m == (iso \div 100) % 100
        d == iso % 100
    IN  YearStart(y) + DaysBeforeMonth(y, m) + d - 1

\* strftime('%Y-%m-%d') of day number n.
strftime(n) ==
    LET y == CHOOSE yy \in 2019..2024 :
                 YearStart(yy) <= n /\ n < YearStart(yy + 1)
        yd == n - YearStart(y)
        m == CHOOSE mm \in 1..12 :
                 /\ DaysBeforeMonth(y, mm) <= yd
                 /\ (mm = 12 \/ yd < DaysBeforeMonth(y, mm + 1))
    IN  y * 10000 + m * 100 + (yd - DaysBeforeMonth(y, m) + 1)

\* Day of the year of an ISO date, from 0.
YearDay(iso) == strptime(iso) - YearStart(iso \div 10000)

\* strftime('%W'): the week of the year, weeks starting on Monday.
WeekOfYearMonday(iso) ==
    LET wd == (strptime(iso) + 2) % 7
    IN  (YearDay(iso) + 7 - wd) \div 7

\* strftime('%U'): the week of the year, weeks starting on Sunday.
WeekOfYearSunday(iso) ==
    LET wd == (strptime(iso) + 3) % 7
    IN  (YearDay(iso) + 7 - wd) \div 7

\* The SQL expression CAST(strftime('%Y', d) AS INTEGER) * 100 +
\* CAST(strftime('%W', d) AS INTEGER).
sql_week_id(iso) == (iso \div 10000) * 100 + WeekOfYearMonday(iso)

\* int(parsed_date.strftime('%Y%U')).
get_week_id(iso) == (iso \div 10000) * 100 + WeekOfYearSunday(iso)

\* epiweeks.Week(year, week).startdate() as a day number: CDC weeks start
\* on Sunday and week 1 is the week that holds January 4.
EpiweekStart(year, week) ==
    LET jan1 == YearStart(year)
        wd == (jan1 + 3) % 7
        first == IF wd <= 3 THEN jan1 - wd ELSE jan1 + 7 - wd
    IN  first + 7 * (week - 1)

\* ------------------------------------------------------------ sources
\* What an external source returns is an input: a candidate list given by
\* its length and a version (two versions give the same keys other values).

Datasets == {"weather", "michigan", "national", "flu"}

\* The lengths of the candidate lists: none, less than four batches, more
\* than five.
SrcLens == {0, BaseLen, COMPLETE * BATCH + 5}

Sources == [len : SrcLens, ver : {1, 2}]

\* Daily(location, start, end).fetch(): one row a day from START_DATE,
\* temperatures in Celsius, some of them missing.
weather_source(s) ==
    [i \in 1..s.len |->
        [time |-> strptime(START_DATE) + i - 1,
         tavg |-> IF i % 5 = 0 THEN Null ELSE Some(((3 * i + 4 * s.ver) % 11) + 2),
         tmin |-> IF i % 7 = 3 THEN Null ELSE Some(((i + s.ver) % 5) - 3),
         tmax |-> Some(((2 * i + s.ver) % 9) + 10)]]

\* actualsTimeseries: one row a day of cumulative cases, some of them null,
\* from a few days before START_DATE.
covid_source(s) ==
    [i \in 1..s.len |->
        [date |-> strptime(START_DATE) - 5 + i,
         cases |-> IF i % 6 = 0 THEN Null ELSE Some(100 * s.ver + 3 * i + (i % 4))]]

\* epidata: one row per epiweek and region, from epiweek 202010.
flu_source(s) ==
    [i \in 1..s.len |->
        LET k == 10 + (i - 1) \div 2
        IN  [region |-> IF i % 2 = 1 THEN "mi" ELSE "nat",
             epiweek |-> IF k <= 53 THEN 202000 + k ELSE 202100 + (k - 53),
             num_ili |-> 7 * s.ver + (i % 13)]]

\* ------------------------------------------------------------- tables

RawTable(d) ==
    CASE d = "weather" -> "national_weather_data"
      [] d = "michigan" -> "daily_michigan_covid_data"
      [] d = "national" -> "daily_national_covid_data"
      [] d = "flu" -> "flu_data_march_2020_to_2023"

\* The table a driver's weekly rows go to (the flu driver has none).
WeeklyTable(d) ==
    CASE d = "weather" -> "michigan_weather_data"
      [] d = "michigan" -> "weekly_michigan_covid_data"
      [] d = "national" -> "weekly_national_covid_data"

\* The name a driver counts its runs under.
RunKey(d) ==
    CASE d = "weather" -> "national_weather_data"
      [] d = "michigan" -> "weekly_michigan_covid_data"
      [] d = "national" -> "weekly_national_covid_data"
      [] d = "flu" -> "flu_data_march_2020_to_2023"

\* One daily table for both COVID datasets.
daily_table_shared(table_name) == "daily_national_covid_data"

\* "daily_" + table_name.replace("weekly_", "")
daily_table(table_name) ==
    CASE table_name = "weekly_michigan_covid_data" -> "daily_michigan_covid_data"
      [] table_name = "weekly_national_covid_data" -> "daily_national_covid_data"

TableNames ==
    {RawTable(d) : d \in Datasets} \cup {WeeklyTable(d) : d \in Datasets \ {"flu"}}

\* ---------------------------------------------------------- run counter

\* SELECT run_count FROM run_counts WHERE table_name = ?; 0 for no row.
get_run_count(rc, table_name) ==
    IF \E r \in rc : r.table_name = table_name
    THEN (CHOOSE r \in rc : r.table_name = table_name).run_count
    ELSE 0

\* A run counter that resets: INSERT OR REPLACE ... VALUES (?, 1).
increment_run_count_replace(rc, table_name) ==
    {r \in rc : r.table_name # table_name}
        \cup {[table_name |-> table_name, run_count |-> 1]}

\* A run counter that is never written.
increment_run_count_lost(rc, table_name) == rc

\* INSERT ... VALUES (?, 1) ON CONFLICT(table_name) DO UPDATE SET
\* run_count = run_count + 1
increment_run_count(rc, table_name) ==
    IF \E r \in rc : r.table_name = table_name
    THEN {IF r.table_name = table_name
          THEN [r EXCEPT !.run_count = r.run_count + 1] ELSE r : r \in rc}
    ELSE rc \cup {[table_name |-> table_name, run_count |-> 1]}

\* ------------------------------------------------------ window policy

\* data.iloc[a:b]
iloc(data, a, b) == SubSeq(data, a + 1, Min(b, Len(data)))

\* A policy that caps the completion run too (run_count < 5).
window_capped(data, run_count, current_count) ==
    IF run_count < COMPLETE
    THEN iloc(data, current_count, current_count + BATCH)
    ELSE data

\* The rows of the candidate list an invocation persists.
window(data, run_count, current_count) ==
    IF run_count < CAPPED
    THEN iloc(data, current_count, current_count + BATCH)
    ELSE data

\* ---------------------------------------------------------- raw store

\* SELECT COUNT(*) FROM table_name
get_table_row_count(tb, table_name) == Cardinality(tb[table_name])

\* The PRIMARY KEY of each table of the schema.
PrimaryKey(table_name) ==
    CASE table_name = "national_weather_data" -> {"time"}
      [] table_name = "michigan_weather_data" -> {"week_id"}
      [] table_name \in {"daily_michigan_covid_data", "daily_national_covid_data"}
            -> {"date"}
      [] table_name \in {"weekly_michigan_covid_data", "weekly_national_covid_data"}
            -> {"week_id"}
      [] table_name = "flu_data_march_2020_to_2023" -> {"region_key", "date"}

SameKey(x, r, pk) == \A f \in pk : x[f] = r[f]

\* An insert where the last write wins.
replace_existing(T, r, pk) ==
    {x \in T : ~SameKey(x, r, pk)} \cup {r}

\* An upsert that keeps the row the table has.
ignore_existing(T, r, pk) ==
    IF \E x \in T : SameKey(x, r, pk) THEN T ELSE T \cup {r}

\* INSERT OR IGNORE: a row whose key is in the table is dropped.
insert_or_ignore(T, r, pk) ==
    IF \E x \in T : SameKey(x, r, pk) THEN T ELSE T \cup {r}

\* INSERT OR REPLACE: a row whose key is in the table replaces that row.
insert_or_replace(T, r, pk) ==
    {x \in T : ~SameKey(x, r, pk)} \cup {r}

\* for _, row in data.iterrows(): INSERT OR IGNORE of each row in turn.  A
\* row gets in when the table holds no row with its key and no earlier row
\* of the frame has its key.
insert_rows(T, rows, pk) ==
    LET fresh == {i \in 1..Len(rows) :
                     /\ insert_or_ignore(T, rows[i], pk) # T
                     /\ \A j \in 1..(i - 1) : ~SameKey(rows[j], rows[i], pk)}
    IN  T \cup {rows[i] : i \in fresh}

\* for week in weekly_data: INSERT OR REPLACE of each row.  The rows of a
\* GROUP BY week_id have distinct keys, so their order does not matter: a
\* row of the table stays unless one of the rows replaces it.
upsert_rows(T, rows, pk) ==
    {x \in T : \A r \in rows : x \in insert_or_replace({x}, r, pk)} \cup rows

\* Whether an insert of rows meets a row of T with its key and other values.
Conflicts(T, rows, pk) ==
    \E i \in 1..Len(rows) : \E x \in T : SameKey(x, rows[i], pk) /\ x # rows[i]

\* ---------------------------------------------------- weekly aggregator

RECURSIVE GCD(_, _)
GCD(a, b) == IF b = 0 THEN a ELSE GCD(b, a % b)

\* The fraction n/d (d > 0) in lowest terms.
Frac(n, d) ==
    LET g == GCD(IF n < 0 THEN -n ELSE n, d)
    IN  [num |-> n \div g, den |-> d \div g]

\* The sum of (c * 9) + 160 over the rows' values c of field f, that is
\* five times the sum of (c * 9/5) + 32.
RECURSIVE SumFahrenheit5(_, _)
SumFahrenheit5(rows, f) ==
    IF rows = {} THEN 0
    ELSE LET r == CHOOSE x \in rows : TRUE
         IN  (r[f][1] * 9 + 160) + SumFahrenheit5(rows \ {r}, f)

\* A mean over every row of the group, a NULL value counting as 0.
avg_null_as_zero(rows, f) ==
    LET vals == {r \in rows : r[f] # Null}
    IN  IF rows = {} THEN Null
        ELSE Some(Frac(SumFahrenheit5(vals, f)
                           + 160 * (Cardinality(rows) - Cardinality(vals)),
                       5 * Cardinality(rows)))

\* AVG((f * 9/5) + 32) over a group: NULL values do not count.
avg_fahrenheit(rows, f) ==
    LET vals == {r \in rows : r[f] # Null}
    IN  IF vals = {} THEN Null
        ELSE Some(Frac(SumFahrenheit5(vals, f), 5 * Cardinality(vals)))

\* The weekly_temps query over national_weather_data.
weekly_temps(T, start_date, end_date) ==
    LET W == {<<sql_week_id(r.time), r>> :
                 r \in {x \in T : start_date <= x.time /\ x.time <= end_date}}
    IN  {LET group == {p[2] : p \in {q \in W : q[1] = w}}
         IN  [week_id |-> w,
              tavg_f |-> avg_fahrenheit(group, "tavg"),
              tmin_f |-> avg_fahrenheit(group, "tmin"),
              tmax_f |-> avg_fahrenheit(group, "tmax")]
         : w \in {p[1] : p \in W}}

\* cases - LAG(cases, 1) OVER (ORDER BY date) over the rows S (no NULL
\* cases): each row is numbered by the rows dated before it, and the rows
\* [date, daily_cases] that have a row before them are returned.
daily_cases(S) ==
    LET R == {<<Cardinality({x \in S : x.date < r.date}), r>> : r \in S}
    IN  {[date |-> p[2].date,
          daily_cases |-> p[2].cases[1]
                            - (CHOOSE q \in R : q[1] = p[1] - 1)[2].cases[1]]
         : p \in {q \in R : q[1] > 0}}

RECURSIVE SumDaily(_)
SumDaily(rows) ==
    IF rows = {} THEN 0
    ELSE LET r == CHOOSE x \in rows : TRUE
         IN  r.daily_cases + SumDaily(rows \ {r})

\* The weekly query of store_covid_data over a daily table.
weekly_cases(T) ==
    LET F == {r \in T : r.cases # Null /\ START_DATE <= r.date /\ r.date <= END_DATE}
        D == {<<sql_week_id(r.date), r>> : r \in daily_cases(F)}
    IN  {[week_id |-> w,
          weekly_cases |-> SumDaily({p[2] : p \in {q \in D : q[1] = w}})]
         : w \in {p[1] : p \in D}}

\* ------------------------------------------------------------ drivers
\* A driver maps the committed tables tb, the run_counts table rc, the
\* source's answer and the fault the environment injects to what the
\* invocation leaves: the tables, run_counts, how it ended (outcome), the
\* run count it read (-1: none), whether it queried the external source,
\* whether an insert met a row with its key and other values, and the fault
\* that took effect ("none" when the invocation never reached the call the
\* fault is about).
\*   ok          ran to the end           skip       already complete
\*   raise       an exception left it     suppressed caught and not re-raised
\*   silent      returned on a non-200    api_error  returned on result # 1

\*   A missing API key is a condition of the environment: it takes effect
\*   in every invocation it is injected into, also in one that never reads
\*   the key.

\* A driver without the run-count gate.
never_complete(run_count) == FALSE

\* if run_count >= 5: the dataset is already complete.
already_complete(run_count) == run_count >= COMPLETE

\* The connections an invocation has opened and not closed when it returns
\* or raises.  A driver closes its own connection in its finally clause (or
\* never bound it); get_run_count and increment_run_count call conn.close()
\* as their last statement, which a failing statement before it skips.
connections_left_open(hit) ==
    IF hit \in {"read_count", "post_commit"} THEN 1 ELSE 0

Outcome(tb, rc, outcome, run_count, fetched, conflict, hit) ==
    [tables |-> tb, run_counts |-> rc, outcome |-> outcome,
     run_count |-> run_count, fetched |-> fetched, conflict |-> conflict,
     hit |-> hit]

\* The rows process_weather_data inserts for the fetched frame.
weather_rows(data) ==
    [i \in 1..Len(data) |->
        [time |-> strftime(data[i].time), tavg |-> data[i].tavg,
         tmin |-> data[i].tmin, tmax |-> data[i].tmax]]

process_weather_data(tb, rc, s, start_date, end_date, table_name, fault) ==
    LET run_count == get_run_count(rc, "national_weather_data")
        current_count == get_table_row_count(tb, "national_weather_data")
        data == window(weather_source(s), run_count, current_count)
        rows == weather_rows(data)
        raw == insert_rows(tb["national_weather_data"], rows,
                           PrimaryKey("national_weather_data"))
        weekly == upsert_rows(tb[table_name],
                              weekly_temps(raw, start_date, end_date),
                              PrimaryKey(table_name))
        written == [tb EXCEPT !["national_weather_data"] = raw,
                              ![table_name] = weekly]
        conflict == Conflicts(tb["national_weather_data"], rows,
                              PrimaryKey("national_weather_data"))
    IN  IF fault \in {"connect", "read_count"}
        THEN Outcome(tb, rc, "raise", -1, FALSE, FALSE, fault)
        ELSE IF already_complete(run_count)
        THEN Outcome(tb, rc, "skip", run_count, FALSE, FALSE, "none")
        ELSE IF fault = "fetch"
        THEN Outcome(tb, rc, "raise", run_count, TRUE, FALSE, fault)
        ELSE IF fault = "write"
        THEN Outcome(tb, rc, "raise", run_count, TRUE, FALSE, fault)
        ELSE IF fault = "post_commit"
        THEN Outcome(written, rc, "raise", run_count, TRUE, conflict, fault)
        ELSE Outcome(written, increment_run_count(rc, "national_weather_data"),
                     "ok", run_count, TRUE, conflict, "none")

\* The rows store_covid_data inserts for the frame df.
covid_rows(df) ==
    [i \in 1..Len(df) |-> [date |-> strftime(df[i].date), cases |-> df[i].cases]]

\* pd.DataFrame([]) has no 'date' column: df['date'] raises KeyError.
store_covid_data(tb, rc, data, table_name, fault) ==
    LET run_count == get_run_count(rc, table_name)
        daily == daily_table(table_name)
        current_count == get_table_row_count(tb, daily)
        rows == covid_rows(window(data, run_count, current_count))
        raw == insert_rows(tb[daily], rows, PrimaryKey(daily))
        weekly == upsert_rows(tb[table_name], weekly_cases(raw),
                              PrimaryKey(table_name))
        written == [tb EXCEPT ![daily] = raw, ![table_name] = weekly]
        conflict == Conflicts(tb[daily], rows, PrimaryKey(daily))
    IN  IF fault \in {"connect", "read_count"}
        THEN Outcome(tb, rc, "raise", -1, FALSE, FALSE, fault)
        ELSE IF already_complete(run_count)
        THEN Outcome(tb, rc, "skip", run_count, FALSE, FALSE, "none")
        ELSE IF data = <<>>
        THEN Outcome(tb, rc, "raise", run_count, FALSE, FALSE, "none")
        ELSE IF fault = "write"
        THEN Outcome(tb, rc, "raise", run_count, FALSE, FALSE, fault)
        ELSE IF fault = "post_commit"
        THEN Outcome(written, rc, "raise", run_count, FALSE, conflict, fault)
        ELSE Outcome(written, increment_run_count(rc, table_name),
                     "ok", run_count, FALSE, conflict, "none")

\* A wrapper that builds the request before it reads the key: the missing
\* key is noticed after requests.get.
fetch_and_store_covid_late_key(tb, rc, s, table_name, fault) ==
    IF fault = "no_key" THEN Outcome(tb, rc, "raise", -1, TRUE, FALSE, fault)
    ELSE IF fault = "request"
    THEN Outcome(tb, rc, "raise", -1, TRUE, FALSE, fault)
    ELSE IF fault = "status"
    THEN Outcome(tb, rc, "silent", -1, TRUE, FALSE, fault)
    ELSE [store_covid_data(tb, rc, covid_source(s), table_name, fault)
             EXCEPT !.fetched = TRUE]

\* fetch_and_store_michigan_covid and fetch_and_store_national_covid, which
\* differ in the URL and in table_name.
fetch_and_store_covid(tb, rc, s, table_name, fault) ==
    IF fault = "no_key" THEN Outcome(tb, rc, "raise", -1, FALSE, FALSE, fault)
    ELSE IF fault = "request"
    THEN Outcome(tb, rc, "raise", -1, TRUE, FALSE, fault)
    ELSE IF fault = "status"
    THEN Outcome(tb, rc, "silent", -1, TRUE, FALSE, fault)
    ELSE [store_covid_data(tb, rc, covid_source(s), table_name, fault)
             EXCEPT !.fetched = TRUE]

\* A flu driver that lets a failed request leave it.
request_reraised(tb, rc, run_count, fault) ==
    Outcome(tb, rc, "raise", run_count, TRUE, FALSE, fault)

\* except requests.exceptions.RequestException: log, roll back, no raise.
request_failed(tb, rc, run_count, fault) ==
    Outcome(tb, rc, "suppressed", run_count, TRUE, FALSE, fault)

\* The rows fetch_and_store_flu_data inserts for the frame df.
flu_rows(df) ==
    [i \in 1..Len(df) |->
        LET date == strftime(EpiweekStart(df[i].epiweek \div 100,
                                          df[i].epiweek % 100))
        IN  [region_key |-> IF df[i].region = "mi" THEN 1 ELSE 2,
             date |-> date,
             week_id |-> get_week_id(date),
             num_ili |-> df[i].num_ili]]

fetch_and_store_flu_data(tb, rc, s, fault) ==
    LET flu == "flu_data_march_2020_to_2023"
        run_count == get_run_count(rc, flu)
        current_count == get_table_row_count(tb, flu)
        epidata == flu_source(s)
        rows == flu_rows(window(epidata, run_count, current_count))
        raw == insert_rows(tb[flu], rows, PrimaryKey(flu))
        written == [tb EXCEPT ![flu] = raw]
        conflict == Conflicts(tb[flu], rows, PrimaryKey(flu))
    IN  IF fault \in {"connect", "read_count"}
        THEN Outcome(tb, rc, "raise", -1, FALSE, FALSE, fault)
        ELSE IF already_complete(run_count)
        THEN Outcome(tb, rc, "skip", run_count, FALSE, FALSE,
                     IF fault = "no_key" THEN fault ELSE "none")
        ELSE IF fault = "no_key"
        THEN Outcome(tb, rc, "raise", run_count, FALSE, FALSE, fault)
        ELSE IF fault \in {"request", "status"}
        THEN request_failed(tb, rc, run_count, fault)
        ELSE IF fault = "api_error"
        THEN Outcome(tb, rc, "api_error", run_count, TRUE, FALSE, fault)
        ELSE IF epidata = <<>>
        THEN Outcome(tb, rc, "raise", run_count, TRUE, FALSE, "none")
        ELSE IF fault = "write"
        THEN Outcome(tb, rc, "raise", run_count, TRUE, FALSE, fault)
        ELSE IF fault = "post_commit"
        THEN Outcome(written, rc, "raise", run_count, TRUE, conflict, fault)
        ELSE Outcome(written, increment_run_count(rc, flu),
                     "ok", run_count, TRUE, conflict, "none")

\* ------------------------------------------------------- state machine

VARIABLES
    tables,      \* final_project.db: table name -> the set of its rows
    run_counts,  \* the run_counts table
    src,         \* what each dataset's external source returns now
    pc,          \* the step of collect_all_data that runs next ("idle": none)
    result,      \* what the last call of collect_all_data returned
    trace,       \* the steps the current (or last) call has run, in order,
                 \* each with how it ended and the fault injected into it
    last,        \* how the last step ended, and the connections it left open
    orch,        \* the calls of collect_all_data so far
    inv,         \* dataset -> the invocations of its driver so far
    faults,      \* the faults injected so far
    faulted,     \* the datasets a fault or a source change has touched
    hist         \* dataset -> <<>> or <<[run_count, src]>> of its last
                 \* invocation that committed

vars == <<tables, run_counts, src, pc, result, trace, last, orch, inv, faults,
          faulted, hist>>

Steps == <<"create_database", "initialize_run_counts", "process_weather_data",
           "fetch_and_store_michigan_covid", "fetch_and_store_national_covid",
           "fetch_and_store_flu_data">>

\* The faults the environment can inject into a step.
FaultsOf(step) ==
    CASE step = "create_database" -> {"none", "connect", "execute"}
      [] step = "initialize_run_counts" -> {"none", "connect"}
      [] step = "process_weather_data"
            -> {"none", "connect", "read_count", "fetch", "write",
                "post_commit"}
      [] step \in {"fetch_and_store_michigan_covid", "fetch_and_store_national_covid"}
            -> {"none", "no_key", "request", "status", "connect", "read_count",
                "write", "post_commit"}
      [] step = "fetch_and_store_flu_data"
            -> {"none", "connect", "read_count", "no_key", "request", "status",
                "api_error", "write", "post_commit"}

\* The step that runs a dataset's driver.
StepOf(d) ==
    CASE d = "weather" -> "process_weather_data"
      [] d = "michigan" -> "fetch_and_store_michigan_covid"
      [] d = "national" -> "fetch_and_store_national_covid"
      [] d = "flu" -> "fetch_and_store_flu_data"

NoStep == [step |-> "none", outcome |-> "none", fault |-> "none",
           run_count |-> -1, fetched |-> FALSE, conflict |-> FALSE,
           open |-> 0]

Init ==
    /\ tables = [t \in TableNames |-> {}]
    /\ run_counts = {}
    /\ \E d \in Datasets, n \in SrcLens :
            src = [x \in Datasets |->
                      [len |-> IF x = d THEN n ELSE BaseLen, ver |-> 1]]
    /\ pc = "idle"
    /\ result = "none"
    /\ trace = <<>>
    /\ last = NoStep
    /\ orch = 0
    /\ inv = [d \in Datasets |-> 0]
    /\ faults = 0
    /\ faulted = {}
    /\ hist = [d \in Datasets |-> <<>>]

Inject(fault) ==
    /\ fault = "none" \/ faults < MaxFaults
    /\ faults' = IF fault = "none" THEN faults ELSE faults + 1

\* collect_all_data is called and runs create_database.  A failing
\* sqlite3.connect leaves conn unbound, the finally clause raises
\* UnboundLocalError and collect_all_data does not catch it; a failing
\* statement makes create_database return False.
create_database ==
    /\ pc = "idle"
    /\ orch < MaxOrch
    /\ orch' = orch + 1
    /\ \E fault \in FaultsOf("create_database") :
        /\ Inject(fault)
        /\ trace' = <<[step |-> "create_database", fault |-> fault,
                       outcome |-> CASE fault = "none" -> "ok"
                                     [] fault = "connect" -> "raise"
                                     [] fault = "execute" -> "false"]>>
        /\ last' = [NoStep EXCEPT !.step = "create_database", !.fault = fault,
                       !.outcome = CASE fault = "none" -> "ok"
                                     [] fault = "connect" -> "raise"
                                     [] fault = "execute" -> "false"]
        /\ pc' = IF fault = "none" THEN "initialize_run_counts" ELSE "idle"
        /\ result' = CASE fault = "none" -> "pending"
                       [] fault = "connect" -> "raised"
                       [] fault = "execute" -> "False"
    /\ UNCHANGED <<tables, run_counts, src, inv, faulted, hist>>

\* initialize_run_counts runs outside the try of collect_all_data.
initialize_run_counts ==
    /\ pc = "initialize_run_counts"
    /\ \E fault \in FaultsOf("initialize_run_counts") :
        /\ Inject(fault)
        /\ trace' = Append(trace, [step |-> "initialize_run_counts",
                                   fault |-> fault,
                                   outcome |-> IF fault = "none" THEN "ok"
                                               ELSE "raise"])
        /\ last' = [NoStep EXCEPT !.step = "initialize_run_counts",
                       !.fault = fault,
                       !.outcome = IF fault = "none" THEN "ok" ELSE "raise"]
        /\ pc' = IF fault = "none" THEN "process_weather_data" ELSE "idle"
        /\ result' = IF fault = "none" THEN "pending" ELSE "raised"
    /\ UNCHANGED <<tables, run_counts, src, orch, inv, faulted, hist>>

\* A driver step of collect_all_data: out is what the driver left, next the
\* step after it ("idle" after the last: return True).  An exception makes
\* collect_all_data return False.  Only a fault that takes effect is
\* injected.
DriverStep(step, d, fault, out, next) ==
    /\ out.hit = fault
    /\ trace' = Append(trace, [step |-> step, fault |-> fault,
                               outcome |-> out.outcome])
    /\ tables' = out.tables
    /\ run_counts' = out.run_counts
    /\ last' = [step |-> step, outcome |-> out.outcome, fault |-> fault,
                run_count |-> out.run_count, fetched |-> out.fetched,
                conflict |-> out.conflict,
                open |-> connections_left_open(out.hit)]
    /\ pc' = IF out.outcome = "raise" THEN "idle" ELSE next
    /\ result' = IF out.outcome = "raise" THEN "False"
                 ELSE IF next = "idle" THEN "True" ELSE "pending"
    /\ inv' = [inv EXCEPT ![d] = @ + 1]
    /\ faulted' = IF fault = "none" THEN faulted ELSE faulted \cup {d}
    /\ hist' = IF out.outcome = "ok" \/ out.hit = "post_commit"
               THEN [hist EXCEPT ![d] = <<[run_count |-> out.run_count,
                                           src |-> src[d]]>>]
               ELSE hist
    /\ UNCHANGED <<src, orch>>

weather_step ==
    /\ pc = "process_weather_data"
    /\ \E fault \in FaultsOf("process_weather_data") :
        /\ Inject(fault)
        /\ DriverStep("process_weather_data", "weather", fault,
                      process_weather_data(tables, run_counts, src["weather"],
                          START_DATE, END_DATE, "michigan_weather_data", fault),
                      "fetch_and_store_michigan_covid")

fetch_and_store_michigan_covid ==
    /\ pc = "fetch_and_store_michigan_covid"
    /\ \E fault \in FaultsOf("fetch_and_store_michigan_covid") :
        /\ Inject(fault)
        /\ DriverStep("fetch_and_store_michigan_covid", "michigan", fault,
                      fetch_and_store_covid(tables, run_counts, src["michigan"],
                          "weekly_michigan_covid_data", fault),
                      "fetch_and_store_national_covid")

fetch_and_store_national_covid ==
    /\ pc = "fetch_and_store_national_covid"
    /\ \E fault \in FaultsOf("fetch_and_store_national_covid") :
        /\ Inject(fault)
        /\ DriverStep("fetch_and_store_national_covid", "national", fault,
                      fetch_and_store_covid(tables, run_counts, src["national"],
                          "weekly_national_covid_data", fault),
                      "fetch_and_store_flu_data")

flu_step ==
    /\ pc = "fetch_and_store_flu_data"
    /\ \E fault \in FaultsOf("fetch_and_store_flu_data") :
        /\ Inject(fault)
        /\ DriverStep("fetch_and_store_flu_data", "flu", fault,
                      fetch_and_store_flu_data(tables, run_counts, src["flu"], fault),
                      "idle")

\* Between two calls a source starts to return other values for its keys.
SourceChange ==
    /\ pc = "idle"
    /\ faults < MaxFaults
    /\ \E d \in Datasets :
        /\ src' = [src EXCEPT ![d].ver = 3 - @]
        /\ faulted' = faulted \cup {d}
    /\ faults' = faults + 1
    /\ UNCHANGED <<tables, run_counts, pc, result, trace, last, orch, inv, hist>>

Next ==
    \/ create_database
    \/ initialize_run_counts
    \/ weather_step
    \/ fetch_and_store_michigan_covid
    \/ fetch_and_store_national_covid
    \/ flu_step
    \/ SourceChange

Spec == Init /\ [][Next]_vars

\* No step is possible: no call is running, the calls and the faults of the
\* behaviour are used up.  This is ~ENABLED <<Next>>_vars.
Done == pc = "idle" /\ orch = MaxOrch /\ faults = MaxFaults

\* collect_all_data is called again and again, and a call that has begun
\* runs its steps: a step that can be taken is taken.  This is weak
\* fairness of Next, WF_vars(Next), with its ENABLED written out as ~Done.
LiveSpec == Spec /\ ([]<>Done \/ []<><<Next>>_vars)

\* ------------------------------------------------------------- claims

DriverSteps == {StepOf(d) : d \in Datasets}

RunCountOf(d) == get_run_count(run_counts, RunKey(d))

\* The weekly rows recomputed from a dataset's raw table.
Recomputed(d) ==
    IF d = "weather"
    THEN weekly_temps(tables[RawTable(d)], START_DATE, END_DATE)
    ELSE weekly_cases(tables[RawTable(d)])

\* No two rows of T have the same key.
UniqueKeys(T, pk) ==
    Cardinality({[f \in pk |-> x[f]] : x \in T}) = Cardinality(T)

\* C1: against a fixed source of N distinct keys and with no fault, a
\* driver's raw table holds min(N, 25 * k) rows after its k-th invocation
\* for k = 1..4 (so each of them adds at most 25), N rows after the 5th,
\* and still N after the 6th.
C1_BatchedBackfill ==
    \A d \in Datasets :
        d \notin faulted =>
            get_table_row_count(tables, RawTable(d))
                = IF inv[d] <= 4 THEN Min(src[d].len, 25 * inv[d])
                  ELSE src[d].len

C1_Witness ==
    \E d \in Datasets :
        /\ d \notin faulted
        /\ inv[d] = 6
        /\ src[d].len > 125
        /\ get_table_row_count(tables, RawTable(d)) = src[d].len

\* C2: a driver invoked with a run count of 5 or more queries no external
\* source and writes to no table.
C2_SkipDoesNothing ==
    [][\A d \in Datasets :
          (pc = StepOf(d) /\ RunCountOf(d) >= 5) =>
              /\ ~last'.fetched
              /\ tables' = tables
              /\ run_counts' = run_counts]_vars

\* C3: get_run_count is 0 for a dataset with no run_counts row,
\* increment_run_count takes the count from c to c + 1, a driver that runs
\* to the end has incremented it, and no step decreases it.
C3_RunCounter ==
    [][\A d \in Datasets :
          LET c == RunCountOf(d)
          IN  /\ (\A r \in run_counts : r.table_name # RunKey(d)) => c = 0
              /\ get_run_count(increment_run_count(run_counts, RunKey(d)),
                               RunKey(d)) = c + 1
              /\ get_run_count(run_counts', RunKey(d)) >= c
              /\ (pc = StepOf(d) /\ last'.outcome = "ok") =>
                    get_run_count(run_counts', RunKey(d)) = c + 1]_vars

C3_Witness ==
    /\ last.step = "process_weather_data"
    /\ last.outcome = "ok"
    /\ last.run_count = 0
    /\ RunCountOf("weather") = 1

\* C4: a driver invocation that fails leaves the run count, the raw table
\* and the weekly table as they were before it.
C4_FailureRestores ==
    [][(pc \in DriverSteps /\ last'.outcome \in {"raise", "suppressed"}) =>
          /\ tables' = tables
          /\ run_counts' = run_counts]_vars

\* C5: collect_all_data does not return True when the source of the weather
\* or of a COVID driver answered with a non-success status.
C5_SourceFailurePropagates ==
    result = "True" =>
        \A i \in 1..Len(trace) :
            ~(/\ trace[i].step \in {"process_weather_data",
                                    "fetch_and_store_michigan_covid",
                                    "fetch_and_store_national_covid"}
              /\ trace[i].fault = "status")

\* C6: a driver that ran with run count r in 0..4 and runs again with the
\* same run count against the same source leaves the raw and the weekly
\* table as the first run left them, with no key twice.
C6_Idempotent ==
    [][\A d \in Datasets :
          (/\ pc = StepOf(d)
           /\ hist[d] # <<>>
           /\ last'.outcome = "ok"
           /\ last'.run_count = hist[d][1].run_count
           /\ src[d] = hist[d][1].src
           /\ last'.run_count \in 0..4) =>
              /\ tables'[RawTable(d)] = tables[RawTable(d)]
              /\ d # "flu" => tables'[WeeklyTable(d)] = tables[WeeklyTable(d)]
              /\ UniqueKeys(tables'[RawTable(d)], PrimaryKey(RawTable(d)))]_vars

\* C7: after a weather or COVID driver invocation that succeeded, the
\* weekly table is exactly the aggregation recomputed from the raw table:
\* the recomputed rows and no other row.
C7_WeeklyIsRecomputed ==
    \A d \in Datasets \ {"flu"} :
        (last.step = StepOf(d) /\ last.outcome \in {"ok", "skip"}) =>
            tables[WeeklyTable(d)] = Recomputed(d)

C7_Witness ==
    \E d \in Datasets \ {"flu"} :
        /\ last.step = StepOf(d)
        /\ last.outcome = "ok"
        /\ last.run_count >= 1
        /\ Cardinality(tables[WeeklyTable(d)]) > 4

\* C8: in every raw table the key is unique, and a row that is in the table
\* stays in it with the values it has: no step changes or deletes it.
C8_RawRowsArePermanent ==
    [][\A d \in Datasets :
          /\ tables[RawTable(d)] \subseteq tables'[RawTable(d)]
          /\ UniqueKeys(tables'[RawTable(d)], PrimaryKey(RawTable(d)))]_vars

\* An insert met a row with its key and other values.
C8_Witness == last.conflict /\ last.outcome = "ok"

\* C9: a driver with run count below 5 whose source returns the empty list
\* inserts nothing, upserts nothing, ends without error and increments the
\* run count.
C9_EmptySource ==
    [][\A d \in Datasets :
          (/\ pc = StepOf(d)
           /\ RunCountOf(d) < 5
           /\ src[d].len = 0
           /\ last'.fault = "none") =>
              /\ last'.outcome = "ok"
              /\ tables' = tables
              /\ get_run_count(run_counts', RunKey(d)) = RunCountOf(d) + 1]_vars

\* C10: the steps of a call run in the fixed order, a step runs only when
\* no earlier step of the call failed, and a call whose schema creation
\* failed or one of whose drivers raised returns False.
C10_FailFast ==
    /\ Len(trace) <= Len(Steps)
    /\ \A i \in 1..Len(trace) :
        /\ trace[i].step = Steps[i]
        /\ i < Len(trace) => trace[i].outcome \notin {"raise", "false"}
    /\ (/\ pc = "idle"
        /\ trace # <<>>
        /\ trace[Len(trace)].step # "initialize_run_counts"
        /\ trace[Len(trace)].outcome \in {"raise", "false"}) =>
            result = "False"

\* C11: a failed request or a non-success status in the flu driver is
\* suppressed: the driver returns, collect_all_data returns True, and the
\* tables and the run counts are as before the invocation.
C11_FluRequestSuppressed ==
    [][(pc = "fetch_and_store_flu_data" /\ last'.fault \in {"request", "status"}) =>
          /\ last'.outcome = "suppressed"
          /\ result' = "True"
          /\ tables' = tables
          /\ run_counts' = run_counts]_vars

C11_Witness ==
    /\ last.step = "fetch_and_store_flu_data"
    /\ last.fault = "status"
    /\ last.outcome = "suppressed"
    /\ result = "True"
    /\ tables["flu_data_march_2020_to_2023"] # {}

\* C12: the week id the flu path stored for a date of the collection window
\* (get_week_id, '%Y%U') is the week id the weather/COVID path derives for
\* that date (year * 100 + '%W').
C12_OneWeekConvention ==
    \A r \in tables["flu_data_march_2020_to_2023"] :
        (START_DATE <= r.date /\ r.date <= END_DATE) =>
            r.week_id = sql_week_id(r.date)

\* The COVID and flu drivers, which read an API key.
KeyedDatasets == {"michigan", "national", "flu"}

\* C13 as stated: a driver invoked with its API key absent raises, having
\* issued no request, written no row and incremented no run count.
C13_MissingKeyRaises ==
    [][\A d \in KeyedDatasets :
          (pc = StepOf(d) /\ last'.fault = "no_key") =>
              /\ last'.outcome = "raise"
              /\ ~last'.fetched
              /\ tables' = tables
              /\ run_counts' = run_counts]_vars

\* C13 amended: a driver invoked with its API key absent issues no request,
\* writes no row and increments no run count; it raises, except the flu
\* driver at a run count of 5 or more, which returns at the gate without
\* reading the key.
C13_MissingKeyNoRequest ==
    [][\A d \in KeyedDatasets :
          (pc = StepOf(d) /\ last'.fault = "no_key") =>
              /\ ~last'.fetched
              /\ tables' = tables
              /\ run_counts' = run_counts
              /\ last'.outcome = IF d = "flu" /\ RunCountOf(d) >= 5
                                 THEN "skip" ELSE "raise"]_vars

C13_Witness ==
    /\ last.step = "fetch_and_store_flu_data"
    /\ last.fault = "no_key"
    /\ last.outcome = "raise"
    /\ tables["flu_data_march_2020_to_2023"] # {}
    /\ result = "False"

\* The day-over-day deltas of the raw rows T of the collection window as the
\* claim C14 describes them: a row's delta is its count minus the count of
\* the raw row dated just before it; the first row, and a row whose own or
\* whose predecessor's count is null, has none.
C14_Deltas(T) ==
    LET W == {r \in T : START_DATE <= r.date /\ r.date <= END_DATE}
        R == {<<Cardinality({x \in W : x.date < r.date}), r>> : r \in W}
        Prev(q) == (CHOOSE z \in R : z[1] = q[1] - 1)[2]
    IN  {[date |-> q[2].date,
          daily_cases |-> q[2].cases[1] - Prev(q).cases[1]]
         : q \in {z \in R : /\ z[1] > 0
                            /\ z[2].cases # Null
                            /\ Prev(z).cases # Null}}

\* C14: after a COVID driver succeeded, the value stored for a week is the
\* sum of the deltas cases[i] - cases[i-1] of the raw rows dated in that
\* week, i-1 being the raw row just before i, rows with a null delta
\* discarded.
C14_WeeklyDeltaSum ==
    \A d \in {"michigan", "national"} :
        (last.step = StepOf(d) /\ last.outcome = "ok") =>
            \A w \in tables[WeeklyTable(d)] :
                w.weekly_cases
                    = SumDaily({r \in C14_Deltas(tables[RawTable(d)]) :
                                   sql_week_id(r.date) = w.week_id})

\* The sum of the Celsius values of field f over rows (none of them null).
RECURSIVE C15_SumCelsius(_, _)
C15_SumCelsius(rows, f) ==
    IF rows = {} THEN 0
    ELSE LET r == CHOOSE x \in rows : TRUE
         IN  r[f][1] + C15_SumCelsius(rows \ {r}, f)

\* The weather rows of T dated in week week_id of the collection window.
C15_WeekRows(T, week_id) ==
    {r \in T : /\ START_DATE <= r.time /\ r.time <= END_DATE
               /\ sql_week_id(r.time) = week_id}

C15_Fields == [tavg_f |-> "tavg", tmin_f |-> "tmin", tmax_f |-> "tmax"]

\* C15: after the weather driver succeeded, each field of each weekly row
\* is the mean m of the non-null Celsius values of the week's raw rows,
\* converted as m * 9/5 + 32 (NULL when the week has none); nulls count in
\* neither the sum nor the number of rows.  The rows 10, null, 20 give 59.
C15_MeanExcludesNulls ==
    /\ avg_fahrenheit({[time |-> 20200302, tavg |-> Some(10)],
                       [time |-> 20200303, tavg |-> Null],
                       [time |-> 20200304, tavg |-> Some(20)]}, "tavg")
           = Some([num |-> 59, den |-> 1])
    /\ (last.step = "process_weather_data" /\ last.outcome = "ok") =>
          \A w \in tables["michigan_weather_data"] :
              \A g \in DOMAIN C15_Fields :
                  LET f == C15_Fields[g]
                      vals == {r \in C15_WeekRows(tables["national_weather_data"],
                                                  w.week_id) : r[f] # Null}
                      n == Cardinality(vals)
                  IN  IF n = 0 THEN w[g] = Null
                      ELSE /\ w[g] # Null
                           /\ w[g][1].num * 5 * n
                                 = w[g][1].den * (9 * C15_SumCelsius(vals, f) + 160 * n)

\* A week of the weekly table with a null and a non-null tavg among its raw
\* rows.
C15_Witness ==
    /\ last.step = "process_weather_data"
    /\ last.outcome = "ok"
    /\ \E w \in tables["michigan_weather_data"] :
          LET rows == C15_WeekRows(tables["national_weather_data"], w.week_id)
          IN  /\ \E r \in rows : r.tavg = Null
              /\ \E r \in rows : r.tavg # Null
              /\ w.tavg_f # Null

\* C16: when a driver invocation has returned or raised, every connection
\* opened during it (the driver's own and those of get_run_count and
\* increment_run_count) is closed.
C16_ConnectionsClosed ==
    last.step \in DriverSteps => last.open = 0

\* The keys of the candidate list a dataset's source returns.
C17_SourceKeys(d) ==
    LET rows == CASE d = "weather" -> weather_rows(weather_source(src[d]))
                  [] d \in {"michigan", "national"}
                        -> covid_rows(covid_source(src[d]))
                  [] d = "flu" -> flu_rows(flu_source(src[d]))
    IN  {[f \in PrimaryKey(RawTable(d)) |-> rows[i][f]] : i \in 1..Len(rows)}

\* The dataset is complete: run count 5 and every key of the source stored.
C17_Complete(d) ==
    /\ RunCountOf(d) = 5
    /\ C17_SourceKeys(d)
          \subseteq {[f \in PrimaryKey(RawTable(d)) |-> x[f]] : x \in tables[RawTable(d)]}

\* C17: when failures are transient (finitely many faults, and no source
\* whose answer makes its driver fail in every call), every dataset comes to
\* run count 5 with every key of its source in its raw table and stays so,
\* and a driver invoked at run count 5 or more changes no table and no run
\* count.
C17_EventuallyComplete ==
    /\ (\A d \in KeyedDatasets : src[d].len > 0) =>
          <>[](\A d \in Datasets : C17_Complete(d))
    /\ [][\A d \in Datasets :
             (pc = StepOf(d) /\ RunCountOf(d) >= 5) =>
                 tables' = tables /\ run_counts' = run_counts]_vars

\* Every dataset is complete after a fault, one of them with a source of
\* more than five batches, and its driver has run once more.
C17_Witness ==
    /\ \A d \in Datasets : C17_Complete(d)
    /\ faults > 0
    /\ \E d \in Datasets : src[d].len > COMPLETE * BATCH /\ inv[d] > 5
    /\ last.outcome = "skip"

\* C18: between driver invocations a dataset with run count r <= 4 has at
\* most 25 * r rows in its raw table: no rows are committed without the run
\* count being incremented.
C18_RowsWithinRunCount ==
    \A d \in Datasets :
        RunCountOf(d) <= 4 =>
            get_table_row_count(tables, RawTable(d)) <= 25 * RunCountOf(d)

\* C19: every dataset's run count is within 0..5.
C19_RunCountAtMostFive ==
    \A d \in Datasets : RunCountOf(d) \in 0..5

\* A driver invoked again after its dataset reached run count 5.
C19_Witness ==
    \E d \in Datasets :
        /\ last.step = StepOf(d)
        /\ last.run_count = 5
        /\ inv[d] > 5
        /\ RunCountOf(d) = 5

\* The tables a dataset's driver writes.
C20_OwnTables(d) ==
    {RawTable(d)} \cup (IF d = "flu" THEN {} ELSE {WeeklyTable(d)})

\* C20: a driver invocation changes no table and no run_counts row of
\* another dataset.
C20_FrameEffect ==
    [][\A d \in Datasets :
          pc = StepOf(d) =>
              /\ \A t \in TableNames \ C20_OwnTables(d) : tables'[t] = tables[t]
              /\ {r \in run_counts' : r.table_name # RunKey(d)}
                    = {r \in run_counts : r.table_name # RunKey(d)}]_vars

\* The Michigan driver has written a second batch while the national
\* dataset holds its first and the other datasets hold rows and counts.
C20_Witness ==
    /\ last.step = "fetch_and_store_michigan_covid"
    /\ last.outcome = "ok"
    /\ get_table_row_count(tables, "daily_michigan_covid_data")
          > get_table_row_count(tables, "daily_national_covid_data")
    /\ tables["daily_national_covid_data"] # {}
    /\ tables["weekly_national_covid_data"] # {}
    /\ tables["national_weather_data"] # {}
    /\ tables["flu_data_march_2020_to_2023"] # {}
    /\ RunCountOf("national") = 1

====
